---------------------------- MODULE Spec2Model ----------------------------
(***************************************************************************)
(* A model of src/Sentiment_NLP.py: the SentimentNLP class, its registry   *)
(* self.data (statistic key -> label -> value), the registration           *)
(* operation load_text, the in-place filter get_wordcount, the three       *)
(* visualisations, and the pure text functions preprocess and count.       *)
(*                                                                         *)
(* Representation.                                                         *)
(*   - a text is a sequence of one-character strings; a word is a          *)
(*     non-empty text without whitespace;                                  *)
(*   - a Python dict whose iteration order matters (a wordcount mapping, a *)
(*     parser's result mapping) is a sequence of <<key, value>> pairs with *)
(*     distinct keys, in insertion order;                                  *)
(*   - self.data and its inner label dictionaries are functions: no        *)
(*     operation's effect on the registry depends on their order;          *)
(*   - None is the string NoneArg for a filename or label argument, and    *)
(*     the record [some |-> FALSE, ...] for word_list.                     *)
(***************************************************************************)
EXTENDS Integers, Sequences, FiniteSets, TLC

(***************************************************************************)
(* Bounds of the model.                                                    *)
(***************************************************************************)
\* longest text the text specification draws
MaxLen == 5
\* largest count of a word in a mapping a custom parser returns
MaxCount == 2
\* largest k passed to get_wordcount / wordcount_sankey (0 is also passed)
MaxK == 3
\* longest sequence of calls on one SentimentNLP object
MaxCalls == 3

VARIABLES
    data,        \* self.data: statistic key -> (label -> value)
    registered,  \* history: label -> the wordcount mapping last stored for it by load_text
    last,        \* history: the last call, its arguments, the registry before it, its outcome
    ncalls,      \* history: the number of calls made so far
    text,        \* text specification: the string handed to preprocess / count
    stage,       \* text specification: "raw", "clean" (after preprocess), "counted"
    counts       \* text specification: [input |-> the string counted, out |-> count(input)]

vars == <<data, registered, last, ncalls, text, stage, counts>>

(***************************************************************************)
(* Dictionaries.                                                           *)
(***************************************************************************)
EmptyDict == <<>>

NoneArg == "<None>"

\* d[k] = v on a dict modelled as a function
DictSet(d, k, v) == [x \in (DOMAIN d) \cup {k} |-> IF x = k THEN v ELSE d[x]]

\* self.data[k] on the defaultdict(dict): a read of a missing key inserts an
\* empty dict under it
DefaultGet(d, k) == IF k \in DOMAIN d THEN d ELSE DictSet(d, k, EmptyDict)

\* ordered dict (sequence of pairs): key in d, d[key]
HasKey(od, key) == \E i \in 1..Len(od) : od[i][1] = key

Lookup(od, key) == od[CHOOSE i \in 1..Len(od) : od[i][1] = key][2]

OrderedKeys(od) == {od[i][1] : i \in 1..Len(od)}

(***************************************************************************)
(* Characters and the text functions.                                      *)
(***************************************************************************)
LowerChars == {"a", "b", "s"}

UpperChars == {"B"}

Whitespace == {" "}

\* the characters a file's raw content is made of ("1" stands for every
\* character that is neither a letter nor whitespace)
RawChars == LowerChars \cup UpperChars \cup Whitespace \cup {"1"}

IsAlpha(c) == c \in LowerChars \cup UpperChars

ToLower(c) == IF c = "B" THEN "b" ELSE c

\* str.split(): the maximal runs of non-whitespace characters, in order
RECURSIVE SplitRec(_, _, _, _)
SplitRec(s, i, cur, acc) ==
    IF i > Len(s)
    THEN IF cur = <<>> THEN acc ELSE Append(acc, cur)
    ELSE IF s[i] \in Whitespace
         THEN SplitRec(s, i + 1, <<>>, IF cur = <<>> THEN acc ELSE Append(acc, cur))
         ELSE SplitRec(s, i + 1, Append(cur, s[i]), acc)

split(s) == SplitRec(s, 1, <<>>, <<>>)

\* ' '.join(words)
RECURSIVE join(_)
join(words) ==
    IF words = <<>> THEN <<>>
    ELSE IF Len(words) = 1 THEN words[1]
    ELSE words[1] \o <<" ">> \o join(Tail(words))

\* re.sub('[^a-zA-Z]', ' ', text_data)
re_sub(s) == [i \in 1..Len(s) |-> IF IsAlpha(s[i]) THEN s[i] ELSE " "]

lower(s) == [i \in 1..Len(s) |-> ToLower(s[i])]

\* set(stopwords.words('english')), restricted to the words over LowerChars
\* of length <= 2 ("a", "as", "s" are in NLTK's list)
stopwords == {<<"a">>, <<"a", "s">>, <<"s">>}

\* WordNetLemmatizer().lemmatize(word): the external lemmatizer, here the
\* removal of a plural "s" from a word of more than two letters
lemmatize(word) ==
    IF Len(word) > 2 /\ word[Len(word)] = "s" /\ word[Len(word) - 1] # "s"
    THEN SubSeq(word, 1, Len(word) - 1)
    ELSE word

RECURSIVE LemmatizeKept(_)
LemmatizeKept(words) ==
    IF words = <<>> THEN <<>>
    ELSE IF words[1] \in stopwords
         THEN LemmatizeKept(Tail(words))
         ELSE <<lemmatize(words[1])>> \o LemmatizeKept(Tail(words))

preprocess(content) == join(LemmatizeKept(split(lower(re_sub(content)))))

\* CountStep with the increment lost: a word met again is set to 1
CountStepResets(cnt, word) ==
    IF HasKey(cnt, word)
    THEN [i \in 1..Len(cnt) |-> IF cnt[i][1] = word THEN <<word, 1>> ELSE cnt[i]]
    ELSE Append(cnt, <<word, 1>>)

\* one iteration of count's loop
CountStep(cnt, word) ==
    IF HasKey(cnt, word)
    THEN [i \in 1..Len(cnt) |->
             IF cnt[i][1] = word THEN <<word, cnt[i][2] + 1>> ELSE cnt[i]]
    ELSE Append(cnt, <<word, 1>>)

RECURSIVE CountLoop(_, _)
CountLoop(words, cnt) ==
    IF words = <<>> THEN cnt
    ELSE CountLoop(Tail(words), CountStep(cnt, words[1]))

count(content) == CountLoop(split(content), <<>>)

\* SentimentIntensityAnalyzer().polarity_scores(content): the external
\* scorer, here a two-word lexicon ("ab" positive, "b" negative)
NumberOf(words, w) == Cardinality({i \in 1..Len(words) : words[i] = w})

polarity_scores(content) ==
    LET words == split(content)
        p == NumberOf(words, <<"a", "b">>)
        n == NumberOf(words, <<"b">>)
    IN [pos |-> p, neg |-> n, neu |-> Len(words) - p - n, compound |-> p - n]


(***************************************************************************)
(* Argument checks of exception_class.NLPError (imported at line 11,       *)
(* called at lines 37, 122 and 149).  The checks are those the             *)
(* specification states: a filename must be present and non-empty, a       *)
(* parser must be invocable, k must be a positive integer.                 *)
(***************************************************************************)
NLPError_default_parser(filename) == filename # NoneArg /\ filename # ""

NLPError_load_text(filename, label, parser) ==
    /\ filename # NoneArg
    /\ filename # ""
    /\ parser.kind # "notcallable"

NLPError_get_wordcount(word_list, k) == k \in Nat \ {0}

(***************************************************************************)
(* The registry operations, as functions of the registry and the call's    *)
(* inputs.  Each returns the registry after the call and the exception it  *)
(* ended with ("" when it returned).                                       *)
(***************************************************************************)
Returned(d) == [data |-> d, err |-> ""]

Raised(d, e) == [data |-> d, err |-> e]

\* _default_parser(filename); file is what open(filename) finds
default_parser(filename, file) ==
    IF ~NLPError_default_parser(filename)
    THEN [err |-> "ValidationError", results |-> <<>>]
    ELSE IF ~file.exists
    THEN [err |-> "FileNotFoundError", results |-> <<>>]
    ELSE LET content == preprocess(file.text)
             wordcounts == count(content)
         IN [err |-> "",
             results |-> << <<"wordcount", wordcounts>>,
                            <<"sentiment", polarity_scores(content)>>,
                            <<"raw_text", content>> >>]

\* parser(filename) for a caller's parser: it raises or returns its mapping
custom_parser(parser, filename) ==
    IF parser.raises
    THEN [err |-> "ParserError", results |-> <<>>]
    ELSE [err |-> "", results |-> parser.results]

\* save_results that keeps what a label already holds (a setdefault)
RECURSIVE save_results_keep(_, _, _)
save_results_keep(d, label, results) ==
    IF results = <<>> THEN d
    ELSE LET k == results[1][1]
             v == results[1][2]
             d1 == DefaultGet(d, k)
             kept == IF label \in DOMAIN d1[k] THEN d1[k][label] ELSE v
         IN save_results_keep(DictSet(d1, k, DictSet(d1[k], label, kept)), label, Tail(results))

\* _save_results: for k, v in results.items(): self.data[k][label] = v
RECURSIVE save_results(_, _, _)
save_results(d, label, results) ==
    IF results = <<>> THEN d
    ELSE LET k == results[1][1]
             v == results[1][2]
             d1 == DefaultGet(d, k)
         IN save_results(DictSet(d1, k, DictSet(d1[k], label, v)), label, Tail(results))

\* the parser's outcome in load_text (lines 125-131)
parse(filename, parser, file) ==
    IF parser.kind = "None"
    THEN default_parser(filename, file)
    ELSE custom_parser(parser, filename)

\* label_of without the default: the label as given
label_as_given(filename, label) == label

\* the label load_text saves under (lines 134-135)
label_of(filename, label) == IF label = NoneArg THEN filename ELSE label

\* load_text with the argument check made after the results are saved
load_text_checks_last(d, filename, label, parser, file) ==
    LET p == parse(filename, parser, file)
    IN IF p.err # ""
       THEN Raised(d, p.err)
       ELSE LET saved == save_results(d, label_of(filename, label), p.results)
            IN IF ~NLPError_load_text(filename, label, parser)
               THEN Raised(saved, "ValidationError")
               ELSE Returned(saved)

load_text(d, filename, label, parser, file) ==
    IF ~NLPError_load_text(filename, label, parser)
    THEN Raised(d, "ValidationError")
    ELSE LET p == parse(filename, parser, file)
         IN IF p.err # ""
            THEN Raised(d, p.err)
            ELSE Returned(save_results(d, label_of(filename, label), p.results))

\* InsertDesc that puts an item before the items of equal count
InsertBeforeEqual(s, item) ==
    LET p == Cardinality({i \in 1..Len(s) : s[i][2] > item[2]})
    IN SubSeq(s, 1, p) \o <<item>> \o SubSeq(s, p + 1, Len(s))

\* sorted(items, key=lambda x: x[1], reverse=True): a stable sort, so items
\* of equal count keep their order
InsertDesc(s, item) ==
    LET p == Cardinality({i \in 1..Len(s) : s[i][2] >= item[2]})
    IN SubSeq(s, 1, p) \o <<item>> \o SubSeq(s, p + 1, Len(s))

RECURSIVE SortLoop(_, _)
SortLoop(items, acc) ==
    IF items = <<>> THEN acc
    ELSE SortLoop(Tail(items), InsertDesc(acc, items[1]))

\* sorted_desc without reverse=True: ascending counts
RECURSIVE SortLoopAsc(_, _)
SortLoopAsc(items, acc) ==
    IF items = <<>> THEN acc
    ELSE LET p == Cardinality({i \in 1..Len(acc) : acc[i][2] <= items[1][2]})
         IN SortLoopAsc(Tail(items),
                        SubSeq(acc, 1, p) \o <<items[1]>> \o SubSeq(acc, p + 1, Len(acc)))

sorted_asc(items) == SortLoopAsc(items, <<>>)

sorted_desc(items) == SortLoop(items, <<>>)

\* s[:k]
Slice(s, k) ==
    IF k >= 0
    THEN SubSeq(s, 1, IF k < Len(s) THEN k ELSE Len(s))
    ELSE SubSeq(s, 1, IF Len(s) + k > 0 THEN Len(s) + k ELSE 0)

\* top_k that slices before it sorts
top_k_slices_first(wc, k) == sorted_desc(Slice(wc, k))

\* line 157: the k most common words of one label
top_k(wc, k) == Slice(sorted_desc(wc), k)

\* lines 164-168: the entries whose word is in word_list
in_list(wc, words) ==
    SelectSeq(wc, LAMBDA item : \E j \in 1..Len(words) : words[j] = item[1])

\* filter_one that cuts the listed words to k as well
filter_one_cuts_list(wc, word_list, k) ==
    IF ~word_list.some THEN top_k(wc, k) ELSE Slice(in_list(wc, word_list.val), k)

filter_one(wc, word_list, k) ==
    IF ~word_list.some THEN top_k(wc, k) ELSE in_list(wc, word_list.val)

get_wordcount(d, word_list, k) ==
    IF ~NLPError_get_wordcount(word_list, k)
    THEN Raised(d, "ValidationError")
    ELSE LET d1 == DefaultGet(d, "wordcount")
             wordcount_dict ==
                 [filename \in DOMAIN d1["wordcount"] |->
                     filter_one(d1["wordcount"][filename], word_list, k)]
         IN Returned(DictSet(d1, "wordcount", wordcount_dict))

\* lines 185-193: df_sankey, as the number of rows of each (text, word)
sankey_rows(d) ==
    LET wordcount_dict == d["wordcount"]
        cells == {<<f, w>> \in (DOMAIN wordcount_dict) \X
                      UNION {OrderedKeys(wordcount_dict[f]) : f \in DOMAIN wordcount_dict} :
                    HasKey(wordcount_dict[f], w)}
    IN [c \in cells |-> Lookup(wordcount_dict[c[1]], c[2])]

\* wordcount_sankey without the call of get_wordcount
wordcount_sankey_reads_only(d, word_list, k) ==
    LET d1 == DefaultGet(d, "wordcount")
    IN [data |-> d1, err |-> "", rows |-> sankey_rows(d1)]

\* wordcount_sankey up to the call of make_sankey
wordcount_sankey(d, word_list, k) ==
    LET r == get_wordcount(d, word_list, k)
    IN IF r.err # "" THEN [data |-> r.data, err |-> r.err, rows |-> <<>>]
       ELSE LET d1 == DefaultGet(r.data, "wordcount")
            IN [data |-> d1, err |-> "", rows |-> sankey_rows(d1)]

\* second_viz up to the plotting calls: text_lst and filename_lst
second_viz(d) == Returned(DefaultGet(d, "raw_text"))

\* third_viz up to the plotting calls: filenames, pos_lst, neg_lst
third_viz(d) == Returned(DefaultGet(d, "sentiment"))


(***************************************************************************)
(* The inputs the calls are made with.                                     *)
(***************************************************************************)
Filenames == {"", "a.txt", "b.txt"}

LabelArgs == {NoneArg, "a.txt"}

Words == {<<"a">>, <<"b">>, <<"a", "b">>}

\* what open(filename) finds: no file, or a file with one of these contents
DiskTexts ==
    { <<"B", " ", "a", " ", "b", "1", "a", "b">>,
      <<"a", "b", "s", " ", "a", "b">> }

Files ==
    {[exists |-> FALSE, text |-> <<>>]} \cup {[exists |-> TRUE, text |-> t] : t \in DiskTexts}

\* the result mappings of the caller's parsers: the three statistics and one
\* more, "wordcount" alone, another statistic alone
CustomResults ==
    { << <<"wordcount", << <<(<<"a">>), 1>>, <<(<<"b">>), 2>>, <<(<<"a", "b">>), 2>> >> >>,
         <<"sentiment", [pos |-> 1, neg |-> 0, neu |-> 4, compound |-> 1]>>,
         <<"raw_text", <<"a", " ", "b", " ", "b", " ", "a", "b", " ", "a", "b">> >>,
         <<"extra", "x1">> >>,
      << <<"wordcount", << <<(<<"b">>), 1>>, <<(<<"a">>), 1>> >> >> >>,
      << <<"extra", "x2">> >> }

NoParser == [kind |-> "None", raises |-> FALSE, results |-> <<>>]

ParserArgs ==
    {NoParser,
     [kind |-> "notcallable", raises |-> FALSE, results |-> <<>>],
     [kind |-> "custom", raises |-> TRUE, results |-> <<>>]}
    \cup {[kind |-> "custom", raises |-> FALSE, results |-> r] : r \in CustomResults}

NoList == [some |-> FALSE, val |-> <<>>]

ListArg(words) == [some |-> TRUE, val |-> words]

\* the sequences over S of length at most n
SeqsUpTo(S, n) == UNION {[1..m -> S] : m \in 0..n}

\* the filter arguments of the registry specification
WordListArgs == {NoList, ListArg(<< <<"b">> >>)}

KArgs == {0, 1, 5}

\* the filter arguments of the filter specification
AllWordListArgs ==
    {NoList, ListArg(<<>>), ListArg(<< <<"b">> >>), ListArg(<< <<"a", "b">>, <<"a">> >>)}

AllKArgs == 0..MaxK

\* plt and WordCloud calls return or raise
PlotOutcomes == {"", "PlotError"}

NoCall ==
    [op |-> "init", filename |-> NoneArg, label |-> NoneArg, parser |-> NoParser,
     file |-> [exists |-> FALSE, text |-> <<>>], results |-> <<>>,
     word_list |-> NoList, k |-> 0, pre |-> EmptyDict, err |-> "", rows |-> <<>>]

(***************************************************************************)
(* The registry specification: one SentimentNLP object and the calls made  *)
(* on it.                                                                  *)
(***************************************************************************)
TextIdle == text = <<>> /\ stage = "idle" /\ counts = [input |-> <<>>, out |-> <<>>]

\* __init__
Init ==
    /\ data = EmptyDict
    /\ registered = EmptyDict
    /\ last = NoCall
    /\ ncalls = 0
    /\ TextIdle

\* one more call on the object
Tick == ncalls < MaxCalls /\ ncalls' = ncalls + 1

LoadText ==
  /\ Tick
  /\ \E filename \in Filenames, label \in LabelArgs, parser \in ParserArgs :
      \E file \in (IF parser.kind = "None" THEN Files ELSE {NoCall.file}) :
        LET r == load_text(data, filename, label, parser, file)
            p == parse(filename, parser, file)
            stored == r.err = "" /\ HasKey(p.results, "wordcount")
        IN /\ data' = r.data
           /\ registered' =
                 IF stored
                 THEN DictSet(registered, label_of(filename, label),
                              Lookup(p.results, "wordcount"))
                 ELSE registered
           /\ last' = [NoCall EXCEPT !.op = "load_text", !.filename = filename,
                                     !.label = label, !.parser = parser, !.file = file,
                                     !.results = IF r.err = "" THEN p.results ELSE <<>>,
                                     !.pre = data, !.err = r.err]
           /\ UNCHANGED <<text, stage, counts>>

GetWordcountWith(lists, ks) ==
    \E word_list \in lists, k \in ks :
        LET r == get_wordcount(data, word_list, k)
        IN /\ data' = r.data
           /\ last' = [NoCall EXCEPT !.op = "get_wordcount", !.word_list = word_list,
                                     !.k = k, !.pre = data, !.err = r.err]
           /\ UNCHANGED <<registered, text, stage, counts>>

GetWordcount == Tick /\ GetWordcountWith(WordListArgs, KArgs)

WordcountSankey ==
  /\ Tick
  /\ \E word_list \in WordListArgs, k \in KArgs, plot \in PlotOutcomes :
        LET r == wordcount_sankey(data, word_list, k)
        IN /\ data' = r.data
           /\ last' = [NoCall EXCEPT !.op = "wordcount_sankey", !.word_list = word_list,
                                     !.k = k, !.pre = data, !.rows = r.rows,
                                     !.err = IF r.err # "" THEN r.err ELSE plot]
           /\ UNCHANGED <<registered, text, stage, counts>>

SecondViz ==
  /\ Tick
  /\ \E plot \in PlotOutcomes :
        LET r == second_viz(data)
        IN /\ data' = r.data
           /\ last' = [NoCall EXCEPT !.op = "second_viz", !.pre = data, !.err = plot]
           /\ UNCHANGED <<registered, text, stage, counts>>

ThirdViz ==
  /\ Tick
  /\ \E plot \in PlotOutcomes :
        LET r == third_viz(data)
        IN /\ data' = r.data
           /\ last' = [NoCall EXCEPT !.op = "third_viz", !.pre = data, !.err = plot]
           /\ UNCHANGED <<registered, text, stage, counts>>

Next ==
    \/ LoadText
    \/ GetWordcount
    \/ WordcountSankey
    \/ SecondViz
    \/ ThirdViz

Spec == Init /\ [][Next]_vars


(***************************************************************************)
(* The filter specification: two documents registered by a caller's parser *)
(* that returns a wordcount mapping, then filtered again and again.  The   *)
(* two documents hold the same words, met in opposite orders.              *)
(***************************************************************************)
\* the wordcount mappings a parser can return: distinct words, positive counts
WordcountDicts ==
    {wc \in SeqsUpTo(Words \X (1..MaxCount), Cardinality(Words)) :
        \A i, j \in 1..Len(wc) : wc[i][1] = wc[j][1] => i = j}

Reverse(s) == [i \in 1..Len(s) |-> s[Len(s) + 1 - i]]

InitFilter ==
    /\ \E wc \in WordcountDicts :
          LET d1 == save_results(EmptyDict, "a.txt", << <<"wordcount", wc>> >>)
              d2 == save_results(d1, "b.txt", << <<"wordcount", Reverse(wc)>> >>)
          IN /\ data = d2
             /\ registered = d2["wordcount"]
             /\ last = [NoCall EXCEPT !.pre = d2]
    /\ ncalls = 0
    /\ TextIdle

FilterAgain == GetWordcountWith(AllWordListArgs, AllKArgs) /\ UNCHANGED ncalls

NextFilter == FilterAgain

SpecFilter == InitFilter /\ [][NextFilter]_vars

(***************************************************************************)
(* The text specification: preprocess and count on every text of at most   *)
(* MaxLen characters, as _default_parser applies them (lines 45-48), and   *)
(* count on a text as it is.                                               *)
(***************************************************************************)
RawTexts == SeqsUpTo(RawChars, MaxLen)

RegistryIdle == data = EmptyDict /\ registered = EmptyDict /\ last = NoCall /\ ncalls = 0

InitText ==
    /\ text \in RawTexts
    /\ stage = "raw"
    /\ counts = [input |-> <<>>, out |-> <<>>]
    /\ RegistryIdle

Preprocess ==
    /\ stage = "raw"
    /\ text' = preprocess(text)
    /\ stage' = "clean"
    /\ UNCHANGED <<counts, data, registered, last, ncalls>>

Count ==
    /\ stage \in {"raw", "clean"}
    /\ counts' = [input |-> text, out |-> count(text)]
    /\ stage' = "counted"
    /\ UNCHANGED <<text, data, registered, last, ncalls>>

NextText ==
    \/ Preprocess
    \/ Count

SpecText == InitText /\ [][NextText]_vars


(***************************************************************************)
(* Vocabulary of the properties.                                           *)
(***************************************************************************)
\* the entries of an ordered mapping
Pairs(od) == {od[i] : i \in 1..Len(od)}

DistinctKeys(od) == \A i, j \in 1..Len(od) : od[i][1] = od[j][1] => i = j

\* the position of a word in an ordered mapping that holds it
PosOf(od, w) == CHOOSE i \in 1..Len(od) : od[i][1] = w

\* new holds entries of old, in the order old holds them
KeepsOrder(new, old) ==
    \A i, j \in 1..Len(new) : i < j => PosOf(old, new[i][1]) < PosOf(old, new[j][1])

\* the labels registered under a statistic key
LabelsUnder(d, k) == IF k \in DOMAIN d THEN DOMAIN d[k] ELSE {}

AllLabels(d) == UNION {DOMAIN d[k] : k \in DOMAIN d}

Smaller(a, b) == IF a < b THEN a ELSE b

\* the label the last load_text registered under: the filename when no label was given
LastLabel == IF last.label = NoneArg THEN last.filename ELSE last.label

Loaded == last.op = "load_text" /\ last.err = ""

\* the last call was get_wordcount without a word_list, with a positive k, and returned
TopKDone ==
    /\ last.op = "get_wordcount"
    /\ ~last.word_list.some
    /\ last.k >= 1
    /\ last.err = ""

\* the last call was get_wordcount with a word_list, and returned
ListDone ==
    /\ last.op = "get_wordcount"
    /\ last.word_list.some
    /\ last.err = ""

ListWords == {last.word_list.val[i] : i \in 1..Len(last.word_list.val)}

(***************************************************************************)
(* C3.  A load_text call that returns has stored, for every (statKey,      *)
(* value) pair of the parser's result, registry[statKey][label] = value,   *)
(* where label is the filename when no label was given; what is registered *)
(* under every other label, under every statistic key, is as it was before *)
(* the call.                                                               *)
(***************************************************************************)
C3_LoadStoresEveryPair ==
    Loaded =>
        /\ \A i \in 1..Len(last.results) :
              LET k == last.results[i][1]
              IN /\ k \in DOMAIN data
                 /\ LastLabel \in DOMAIN data[k]
                 /\ data[k][LastLabel] = last.results[i][2]
        /\ \A k \in DOMAIN last.pre :
              /\ k \in DOMAIN data
              /\ \A l \in DOMAIN last.pre[k] \ {LastLabel} :
                    l \in DOMAIN data[k] /\ data[k][l] = last.pre[k][l]
        /\ \A k \in DOMAIN data :
              DOMAIN data[k] \ {LastLabel} = LabelsUnder(last.pre, k) \ {LastLabel}

\* a call without a label, by the default parser, on a registry that holds another label
C3_Witness ==
    /\ Loaded
    /\ last.label = NoneArg
    /\ last.parser.kind = "None"
    /\ Len(last.results) = 3
    /\ AllLabels(last.pre) \ {LastLabel} # {}
    /\ last.filename \in DOMAIN data["wordcount"]

(***************************************************************************)
(* C6.  A load_text call that fails (the argument check fails, the file    *)
(* cannot be read, the parser raises) leaves the registry exactly as it    *)
(* was before the call.                                                    *)
(***************************************************************************)
C6_FailedLoadChangesNothing ==
    (last.op = "load_text" /\ last.err # "") => data = last.pre

\* the default parser finds no file, on a registry that holds statistics
C6_Witness ==
    /\ last.op = "load_text"
    /\ last.err = "FileNotFoundError"
    /\ AllLabels(last.pre) # {}
    /\ data = last.pre

(***************************************************************************)
(* C1 as stated.  After a second load_text under a label, every value the  *)
(* registry holds under that label, under any statistic key, is a value of *)
(* the second call's parser result.                                        *)
(***************************************************************************)
Reregistered == Loaded /\ LastLabel \in AllLabels(last.pre)

C1_ReregistrationReplacesAll ==
    Reregistered =>
        \A k \in DOMAIN data :
            LastLabel \in DOMAIN data[k] =>
                /\ HasKey(last.results, k)
                /\ data[k][LastLabel] = Lookup(last.results, k)

(***************************************************************************)
(* C1 amended.  After a second load_text under a label, the registry holds *)
(* under that label the second result's value under every statistic key of *)
(* the second result, and under every other statistic key exactly what it  *)
(* held under that label before the call.                                  *)
(***************************************************************************)
C1_ReregistrationReplacesPerKey ==
    Reregistered =>
        /\ \A k \in DOMAIN data :
              LastLabel \in DOMAIN data[k] =>
                  IF HasKey(last.results, k)
                  THEN data[k][LastLabel] = Lookup(last.results, k)
                  ELSE /\ LastLabel \in LabelsUnder(last.pre, k)
                       /\ data[k][LastLabel] = last.pre[k][LastLabel]
        /\ \A k \in OrderedKeys(last.results) \cup DOMAIN last.pre :
              (HasKey(last.results, k) \/ LastLabel \in LabelsUnder(last.pre, k))
                  => LastLabel \in LabelsUnder(data, k)

\* a second registration that replaces one statistic and leaves another one behind
C1_Witness ==
    /\ Reregistered
    /\ \E k \in DOMAIN last.pre :
          /\ LastLabel \in DOMAIN last.pre[k]
          /\ HasKey(last.results, k)
          /\ data[k][LastLabel] # last.pre[k][LastLabel]
    /\ \E k \in DOMAIN last.pre :
          /\ LastLabel \in DOMAIN last.pre[k]
          /\ ~HasKey(last.results, k)

(***************************************************************************)
(* C2 as stated.  wordcount_sankey, second_viz and third_viz leave the     *)
(* registry (its statistic keys, its labels, every stored value) as it was *)
(* before the call.                                                        *)
(***************************************************************************)
IsViz == last.op \in {"wordcount_sankey", "second_viz", "third_viz"}

C2_AdaptersChangeNothing == IsViz => data = last.pre

(***************************************************************************)
(* C2 amended.  second_viz and third_viz change no label and no stored     *)
(* value; they add the statistic key they read ("raw_text", "sentiment"),  *)
(* with no label under it, when the registry lacks it.  wordcount_sankey   *)
(* changes the registry exactly as get_wordcount(word_list, k) does: no    *)
(* statistic but "wordcount" changes, the labels stay, and each label's    *)
(* wordcount mapping becomes a sub-mapping of what it was.                 *)
(***************************************************************************)
VizKey == IF last.op = "second_viz" THEN "raw_text" ELSE "sentiment"

C2_AdaptersChangeOnlyThis ==
    /\ last.op \in {"second_viz", "third_viz"} =>
          /\ DOMAIN data = DOMAIN last.pre \cup {VizKey}
          /\ \A k \in DOMAIN last.pre : data[k] = last.pre[k]
          /\ VizKey \notin DOMAIN last.pre => data[VizKey] = EmptyDict
    /\ last.op = "wordcount_sankey" =>
          /\ data = get_wordcount(last.pre, last.word_list, last.k).data
          /\ last.err = "ValidationError" => data = last.pre
          /\ \A k \in DOMAIN last.pre \ {"wordcount"} : k \in DOMAIN data /\ data[k] = last.pre[k]
          /\ DOMAIN data \subseteq DOMAIN last.pre \cup {"wordcount"}
          /\ LabelsUnder(data, "wordcount") = LabelsUnder(last.pre, "wordcount")
          /\ \A l \in LabelsUnder(last.pre, "wordcount") :
                Pairs(data["wordcount"][l]) \subseteq Pairs(last.pre["wordcount"][l])

\* a wordcount_sankey call that cut a label's wordcount mapping
C2_Witness ==
    /\ last.op = "wordcount_sankey"
    /\ \E l \in LabelsUnder(last.pre, "wordcount") :
          Len(data["wordcount"][l]) < Len(last.pre["wordcount"][l])
    /\ "sentiment" \in DOMAIN data

(***************************************************************************)
(* C7 as stated.  The registry is empty at initialisation; only load_text  *)
(* adds a statistic key or a label (get_wordcount and the three            *)
(* visualisations add none); no call removes a label from a statistic key. *)
(***************************************************************************)
C7_OnlyLoadTextGrowsRegistry ==
    /\ last.op = "init" => data = last.pre
    /\ last.op \notin {"init", "load_text"} =>
          /\ DOMAIN data = DOMAIN last.pre
          /\ \A k \in DOMAIN data : DOMAIN data[k] = DOMAIN last.pre[k]
    /\ \A k \in DOMAIN last.pre :
          k \in DOMAIN data /\ DOMAIN last.pre[k] \subseteq DOMAIN data[k]


(***************************************************************************)
(* C4.  get_wordcount without a word_list and with a positive k leaves,    *)
(* for every registered label, a wordcount mapping of min(k, prior size)   *)
(* entries, each an entry of the prior mapping with its count, and every   *)
(* count it keeps is at least every count it drops.                        *)
(***************************************************************************)
C4_TopKKeepsLargest ==
    TopKDone =>
        /\ LabelsUnder(data, "wordcount") = LabelsUnder(last.pre, "wordcount")
        /\ \A l \in LabelsUnder(last.pre, "wordcount") :
              LET old == last.pre["wordcount"][l]
                  new == data["wordcount"][l]
              IN /\ Len(new) = Smaller(last.k, Len(old))
                 /\ DistinctKeys(new)
                 /\ Pairs(new) \subseteq Pairs(old)
                 /\ \A kept \in Pairs(new), dropped \in Pairs(old) \ Pairs(new) :
                       kept[2] >= dropped[2]

\* k = 2 on a mapping of three words whose first word has the smallest count
C4_Witness ==
    /\ TopKDone
    /\ last.k = 2
    /\ \E l \in LabelsUnder(last.pre, "wordcount") :
          LET old == last.pre["wordcount"][l]
          IN /\ Len(old) = 3
             /\ old[1][2] < old[2][2]
             /\ old[1][2] < old[3][2]
             /\ ~HasKey(data["wordcount"][l], old[1][1])

(***************************************************************************)
(* C9.  get_wordcount without a word_list breaks ties by insertion order:  *)
(* of words of equal count those that come first in the prior mapping are  *)
(* kept, and the mapping it leaves is ordered by descending count, words   *)
(* of equal count in their prior relative order.                           *)
(***************************************************************************)
C9_TiesByInsertionOrder ==
    TopKDone =>
        \A l \in LabelsUnder(last.pre, "wordcount") :
            LET old == last.pre["wordcount"][l]
                new == data["wordcount"][l]
            IN /\ \A i, j \in 1..Len(new) :
                     i < j =>
                        \/ new[i][2] > new[j][2]
                        \/ /\ new[i][2] = new[j][2]
                           /\ PosOf(old, new[i][1]) < PosOf(old, new[j][1])
               /\ \A kept \in Pairs(new), dropped \in Pairs(old) \ Pairs(new) :
                     kept[2] = dropped[2] => PosOf(old, kept[1]) < PosOf(old, dropped[1])

\* three words of equal count cut to two: the first two are kept, in their order
C9_Witness ==
    /\ TopKDone
    /\ \E l \in LabelsUnder(last.pre, "wordcount") :
          LET old == last.pre["wordcount"][l]
              new == data["wordcount"][l]
          IN /\ Len(old) = 3
             /\ old[2][2] = old[3][2]
             /\ old[1][2] = old[2][2]
             /\ Len(new) = 2
             /\ new[1] = old[1]
             /\ new[2] = old[2]

(***************************************************************************)
(* C5.  get_wordcount with a word_list leaves, for every registered label, *)
(* exactly the prior entries whose word is in the list, counts unchanged   *)
(* and in their prior order, whatever k is.                                *)
(***************************************************************************)
C5_WordListKeepsListedWords ==
    ListDone =>
        /\ LabelsUnder(data, "wordcount") = LabelsUnder(last.pre, "wordcount")
        /\ \A l \in LabelsUnder(last.pre, "wordcount") :
              LET old == last.pre["wordcount"][l]
                  new == data["wordcount"][l]
              IN /\ Pairs(new) = {e \in Pairs(old) : e[1] \in ListWords}
                 /\ OrderedKeys(new) \subseteq ListWords \cap OrderedKeys(old)
                 /\ DistinctKeys(new)
                 /\ KeepsOrder(new, old)

\* k = 1 and a two-word list: two entries are kept and one is dropped
C5_Witness ==
    /\ ListDone
    /\ last.k = 1
    /\ \E l \in LabelsUnder(last.pre, "wordcount") :
          /\ Len(last.pre["wordcount"][l]) = 3
          /\ Len(data["wordcount"][l]) = 2

(***************************************************************************)
(* C10.  Filters compose on the filtered data: get_wordcount(k = k1) and   *)
(* then get_wordcount(k = k2) leave what one get_wordcount(k = min(k1,     *)
(* k2)) leaves on the registry the first started from; and after any       *)
(* filters every label's wordcount mapping is a sub-mapping of the mapping *)
(* load_text last stored for it.                                           *)
(***************************************************************************)
TopKTwice ==
    (TopKDone /\ TopKDone') =>
        data' = get_wordcount(last.pre, NoList, Smaller(last.k, last'.k)).data

SubMappingOfRegistered ==
    \A l \in LabelsUnder(data, "wordcount") :
        /\ l \in DOMAIN registered
        /\ Pairs(data["wordcount"][l]) \subseteq Pairs(registered[l])
        /\ DistinctKeys(data["wordcount"][l])

C10_FiltersCompose == [][TopKTwice]_vars /\ []SubMappingOfRegistered

\* a top-k filter that cut a mapping an earlier filter had already cut
C10_Witness ==
    /\ TopKDone
    /\ \E l \in LabelsUnder(last.pre, "wordcount") :
          /\ Len(registered[l]) > Len(last.pre["wordcount"][l])
          /\ Len(last.pre["wordcount"][l]) > Len(data["wordcount"][l])
          /\ Len(data["wordcount"][l]) > 0

(***************************************************************************)
(* C8.  count(c) maps exactly the distinct whitespace-separated tokens of  *)
(* c, each to the number of its occurrences in c, so the counts sum to the *)
(* number of tokens of c; the empty text gives the empty mapping.          *)
(***************************************************************************)
\* where a token starts in c, and the token that starts there
TokenStarts(c) ==
    {i \in 1..Len(c) : c[i] \notin Whitespace /\ (i = 1 \/ c[i - 1] \in Whitespace)}

TokenAt(c, i) ==
    LET stop == CHOOSE j \in i..Len(c) :
                    /\ \A m \in i..j : c[m] \notin Whitespace
                    /\ (j = Len(c) \/ c[j + 1] \in Whitespace)
    IN SubSeq(c, i, stop)

RECURSIVE SumOfCounts(_)
SumOfCounts(od) == IF od = <<>> THEN 0 ELSE od[1][2] + SumOfCounts(Tail(od))

C8_CountTalliesTokens ==
    stage = "counted" =>
        LET c == counts.input
            out == counts.out
        IN /\ DistinctKeys(out)
           /\ OrderedKeys(out) = {TokenAt(c, i) : i \in TokenStarts(c)}
           /\ \A e \in Pairs(out) :
                 e[2] = Cardinality({i \in TokenStarts(c) : TokenAt(c, i) = e[1]})
           /\ SumOfCounts(out) = Cardinality(TokenStarts(c))
           /\ SumOfCounts(out) = Len(split(c))
           /\ (c = <<>> => out = <<>>)

\* a text of three tokens, two of them the same word
C8_Witness ==
    /\ stage = "counted"
    /\ Len(counts.out) = 2
    /\ SumOfCounts(counts.out) = 3

=============================================================================
